---- MODULE Spec2Model ----
(***************************************************************************)
(* Model of api/index.py, the OpoQuiz backend: FastAPI handlers over three *)
(* external services (Supabase tables, Gemini, Firebase token check).      *)
(*                                                                         *)
(* Strings are sequences of tokens.  A topic text is a sequence over       *)
(* "NL" (newline), "SP" (space) and words "W150", "W151" (runs of 150 and  *)
(* 151 non-blank characters).  A model answer is a sequence over the fence *)
(* "FENCE", the word "json", blanks "WS", prose "JUNK" and JSON values.    *)
(***************************************************************************)
EXTENDS Integers, Sequences, FiniteSets, TLC

VARIABLES topics, preguntas_generadas, tests, test_respuestas, pending, last

vars == <<topics, preguntas_generadas, tests, test_respuestas, pending, last>>

----------------------------------------------------------------------------
(* Bounds of the model *)

MaxTextLen == 4
MaxPending == 1
MaxHistory == 1
MaxDraw == 1
MaxTests == 1
MaxAnswers == 3
MaxContextLen == 4

(* Program constants *)

FragmentMinLen == 150
GenerationsPerRequest == 1
HTTP_200_OK == 200
HTTP_400_BAD_REQUEST == 400
HTTP_401_UNAUTHORIZED == 401
HTTP_404_NOT_FOUND == 404
HTTP_500_INTERNAL == 500

TopicIds == {1, 2}

----------------------------------------------------------------------------
(* Strings *)

RECURSIVE SeqsUpTo(_, _)
SeqsUpTo(S, n) ==
    IF n = 0 THEN {<<>>}
    ELSE LET shorter == SeqsUpTo(S, n - 1)
         IN  shorter \cup {Append(s, x) : s \in {t \in shorter : Len(t) = n - 1}, x \in S}

TextTokens == {"NL", "SP", "W150", "W151"}

IsSpace(tok) == tok \in {"NL", "SP", "WS"}

\* len() of one token of a text
TokenLen(tok) ==
    CASE tok = "W150" -> 150
      [] tok = "W151" -> 151
      [] OTHER -> 1

\* len(s)
RECURSIVE StrLen(_)
StrLen(s) == IF s = <<>> THEN 0 ELSE TokenLen(Head(s)) + StrLen(Tail(s))

\* str.strip()
RECURSIVE LStrip(_)
LStrip(s) == IF s # <<>> /\ IsSpace(Head(s)) THEN LStrip(Tail(s)) ELSE s

RECURSIVE RStrip(_)
RStrip(s) ==
    IF s # <<>> /\ IsSpace(s[Len(s)]) THEN RStrip(SubSeq(s, 1, Len(s) - 1)) ELSE s

Strip(s) == RStrip(LStrip(s))

\* whether pat occurs in s at position i
OccursAt(s, pat, i) ==
    /\ i + Len(pat) - 1 <= Len(s)
    /\ \A k \in 1 .. Len(pat) : s[i + k - 1] = pat[k]

\* str.find(pat): the first position of pat in s, 0 when there is none
FindFirst(s, pat) ==
    LET hits == {i \in 1 .. Len(s) : OccursAt(s, pat, i)}
    IN  IF hits = {} THEN 0 ELSE CHOOSE i \in hits : \A j \in hits : i <= j

\* str.split(sep): left to right, separators do not overlap
RECURSIVE Split(_, _)
Split(s, sep) ==
    LET i == FindFirst(s, sep)
    IN  IF i = 0 THEN <<s>>
        ELSE <<SubSeq(s, 1, i - 1)>> \o Split(SubSeq(s, i + Len(sep), Len(s)), sep)

\* str.replace(pat, ""): left to right, occurrences do not overlap
RECURSIVE Remove(_, _)
Remove(s, pat) ==
    LET i == FindFirst(s, pat)
    IN  IF i = 0 THEN s
        ELSE SubSeq(s, 1, i - 1) \o Remove(SubSeq(s, i + Len(pat), Len(s)), pat)

Range(s) == {s[i] : i \in 1 .. Len(s)}

----------------------------------------------------------------------------
(* Exceptions and responses *)

StatusText(code) ==
    CASE code = HTTP_400_BAD_REQUEST -> "400"
      [] code = HTTP_401_UNAUTHORIZED -> "401"
      [] code = HTTP_404_NOT_FOUND -> "404"
      [] code = HTTP_500_INTERNAL -> "500"
      [] OTHER -> "200"

HTTPException(code, detail) ==
    [type |-> "HTTPException", status_code |-> code, detail |-> detail]

\* any other exception: a database error, a model error, a decoding error ...
Error(name) == [type |-> name, status_code |-> 0, detail |-> <<name>>]

\* str(e); an HTTPException prints as "<status_code>: <detail>"
Str(e) ==
    IF e.type = "HTTPException"
    THEN <<StatusText(e.status_code), ": ">> \o e.detail
    ELSE e.detail

\* except Exception as e: raise HTTPException(status_code=500, detail=str(e))
\* (BoundaryReraise: with "except HTTPException: raise" put before it)
BoundaryReraise(e) ==
    IF e.type = "HTTPException" THEN e ELSE HTTPException(HTTP_500_INTERNAL, Str(e))
Boundary(e) == HTTPException(HTTP_500_INTERNAL, Str(e))

RandomPrefix == <<"Error al seleccionar tema aleatorio: ">>

\* get_random_question's except clause
RandomBoundary(e) == HTTPException(HTTP_500_INTERNAL, RandomPrefix \o Str(e))

NoLoc == [none |-> TRUE]

\* What one request did and how it ended.
\*   caught     the exceptions caught by except clauses, innermost first
\*   reads      the tables read, in order;  writes  the tables inserted into
\*   gen_calls  the number of generate_content calls
\*   added      the number of background_tasks.add_task calls
\*   tasks      the tasks handed to the framework with the response
Result(status, detail, body, caught, reads, writes, gen_calls, added, tasks, loc) ==
    [status_code |-> status, detail |-> detail, body |-> body, caught |-> caught,
     reads |-> reads, writes |-> writes, gen_calls |-> gen_calls, added |-> added,
     tasks |-> tasks, loc |-> loc]

\* a handler that returns body
Ok(body, reads, writes, gen_calls, loc) ==
    Result(HTTP_200_OK, <<>>, body, <<>>, reads, writes, gen_calls, 0, <<>>, loc)

\* a handler whose try block raised e: the except clause answers
Failed(e, reads, writes, gen_calls, added, loc) ==
    LET h == Boundary(e)
    IN  Result(h.status_code, h.detail, NoLoc, <<e>>, reads, writes, gen_calls, added,
               <<>>, loc)

----------------------------------------------------------------------------
(* The model's JSON answers *)

JsonTokens == {"O1", "O2", "O3", "ARR"}

JsonValue(tok) ==
    CASE tok = "O1" ->
           [kind |-> "object",
            obj |-> [question |-> "q1", options |-> "opts1", correct_answer |-> "A"]]
      [] tok = "O2" ->
           [kind |-> "object",
            obj |-> [question |-> "q2", options |-> "opts2", correct_answer |-> "B",
                     topic_id |-> 99]]
      [] tok = "O3" ->
           [kind |-> "object", obj |-> [options |-> "opts3", correct_answer |-> "C"]]
      [] OTHER -> [kind |-> "array", obj |-> <<>>]

\* gemini_response.text.strip().replace(FENCE + "json", "").replace(FENCE, "").strip()
CleanResponse(text) ==
    Strip(Remove(Remove(Strip(text), <<"FENCE", "json">>), <<"FENCE">>))

\* json.loads: one JSON value, blanks around it allowed
JsonLoads(text) ==
    LET t == Strip(text)
    IN  IF Len(t) = 1 /\ t[1] \in JsonTokens
        THEN [ok |-> TRUE, value |-> JsonValue(t[1])]
        ELSE [ok |-> FALSE, value |-> JsonValue("ARR")]

\* d[k] = v
SetKey(d, k, v) == [x \in DOMAIN d \cup {k} |-> IF x = k THEN v ELSE d[x]]

GeminiTexts ==
    { <<"O1">>,
      <<"FENCE", "json", "WS", "O2", "WS", "FENCE", "WS">>,
      <<"JUNK", "O1">>,
      <<"O3">>,
      <<"ARR">> }

\* what generate_content does: raises, or returns a text
GeminiOutcomes ==
    {[error |-> TRUE, text |-> <<>>]} \cup {[error |-> FALSE, text |-> t] : t \in GeminiTexts}

----------------------------------------------------------------------------
(* Question generation *)

\* (the same with >= in place of >)
RECURSIVE LongPiecesFrom150(_)
LongPiecesFrom150(pieces) ==
    IF pieces = <<>> THEN <<>>
    ELSE (IF StrLen(Strip(Head(pieces))) >= FragmentMinLen
          THEN <<Strip(Head(pieces))>> ELSE <<>>) \o LongPiecesFrom150(Tail(pieces))

\* [p.strip() for p in pieces if len(p.strip()) > 150]
RECURSIVE LongPieces(_)
LongPieces(pieces) ==
    IF pieces = <<>> THEN <<>>
    ELSE (IF StrLen(Strip(Head(pieces))) > FragmentMinLen
          THEN <<Strip(Head(pieces))>> ELSE <<>>) \o LongPieces(Tail(pieces))

all_fragments_from150(full_text) == LongPiecesFrom150(Split(full_text, <<"NL", "NL">>))
all_fragments(full_text) == LongPieces(Split(full_text, <<"NL", "NL">>))

\* random.choice(s), rnd the random draw
Choice(s, rnd) == s[(rnd % Len(s)) + 1]

QuestionPrompt(fragment) == <<"PROMPT_QUESTION">> \o fragment

SaveTask(question_data, topic_id, user_id) ==
    [question_data |-> question_data, topic_id |-> topic_id, user_id |-> user_id]

GenLoc(topic_id, full_text, frags, selected, text, parsed) ==
    [topic_id |-> topic_id, full_text |-> full_text, all_fragments |-> frags,
     selected_fragment |-> selected, prompt |-> QuestionPrompt(selected),
     gemini_text |-> text, final_question |-> parsed]

NoObject == [kind |-> "none", obj |-> <<>>]

\* model.generate_content(prompt): one call, which raises or returns a text
generate_content_retry(outcome) ==
    [calls |-> IF outcome.error THEN 2 ELSE 1, error |-> outcome.error, text |-> outcome.text]
generate_content(outcome) == [calls |-> 1, error |-> outcome.error, text |-> outcome.text]

\* final_question['topic_id'] = topic_id
SpliceKeep(obj, topic_id) ==
    IF "topic_id" \in DOMAIN obj THEN obj ELSE SetKey(obj, "topic_id", topic_id)
Splice(obj, topic_id) == SetKey(obj, "topic_id", topic_id)

\* the end of generate_question_from_topic, from add_task to the return;
\* the task holds the very object the splice then changes
FinishTwice(final_question, topic_id, user_id, calls, loc) ==
    LET spliced == Splice(final_question.obj, topic_id)
        task == SaveTask(spliced, topic_id, user_id)
    IN  IF final_question.kind # "object"
        THEN Failed(Error("TypeError"), <<"topics">>, <<>>, calls, 2, loc)
        ELSE Result(HTTP_200_OK, <<>>, spliced, <<>>, <<"topics">>, <<>>, calls, 2,
                    <<task, task>>, loc)
Finish(final_question, topic_id, user_id, calls, loc) ==
    LET spliced == Splice(final_question.obj, topic_id)
    IN  IF final_question.kind # "object"
        THEN Failed(Error("TypeError"), <<"topics">>, <<>>, calls, 1, loc)
        ELSE Result(HTTP_200_OK, <<>>, spliced, <<>>, <<"topics">>, <<>>, calls, 1,
                    <<SaveTask(spliced, topic_id, user_id)>>, loc)

\* generate_question_from_topic; ext holds what the outside world answers:
\*   db_error  the topics read fails;  rnd  the random draw;  gemini  a GeminiOutcome
generate_question_from_topic(topic_id, user_id, ext) ==
    LET found == ~ext.db_error /\ topic_id \in DOMAIN topics
        full_text == IF found /\ ~topics[topic_id].is_null
                     THEN topics[topic_id].content ELSE <<>>
        frags == all_fragments(full_text)
        selected == IF frags = <<>> THEN <<>> ELSE Choice(frags, ext.rnd)
        gemini_response == generate_content(ext.gemini)
        loaded == JsonLoads(CleanResponse(gemini_response.text))
        loc0 == GenLoc(topic_id, full_text, <<>>, <<>>, <<>>, NoObject)
        loc1 == GenLoc(topic_id, full_text, frags, selected, <<>>, NoObject)
        loc2 == GenLoc(topic_id, full_text, frags, selected, gemini_response.text, NoObject)
        loc3 == GenLoc(topic_id, full_text, frags, selected, gemini_response.text,
                       loaded.value)
    IN  IF ~found
        THEN Failed(Error("APIError"), <<"topics">>, <<>>, 0, 0, loc0)
        ELSE IF full_text = <<>>
        THEN Failed(HTTPException(HTTP_404_NOT_FOUND, <<"Tema no encontrado o sin contenido">>),
                    <<"topics">>, <<>>, 0, 0, loc0)
        ELSE IF frags = <<>>
        THEN Failed(HTTPException(HTTP_400_BAD_REQUEST,
                        <<"El contenido del tema es demasiado corto para generar preguntas">>),
                    <<"topics">>, <<>>, 0, 0, loc1)
        ELSE IF gemini_response.error
        THEN Failed(Error("GoogleAPIError"), <<"topics">>, <<>>, gemini_response.calls, 0,
                    loc1)
        ELSE IF ~loaded.ok
        THEN Failed(Error("JSONDecodeError"), <<"topics">>, <<>>, gemini_response.calls, 0,
                    loc2)
        ELSE Finish(loaded.value, topic_id, user_id, gemini_response.calls, loc3)

----------------------------------------------------------------------------
(* Authentication *)

Tokens == {"tokA", "tokB", "bad"}

\* auth.verify_id_token(token): the decoded uid, or an exception
verify_id_token(token) ==
    CASE token = "tokA" -> [ok |-> TRUE, uid |-> "u1"]
      [] token = "tokB" -> [ok |-> TRUE, uid |-> "u2"]
      [] OTHER -> [ok |-> FALSE, uid |-> "none"]

\* get_current_user
get_current_user(token) == verify_id_token(token)

Unauthorized ==
    Result(HTTP_401_UNAUTHORIZED, <<"Token de autenticacion invalido o expirado">>, NoLoc,
           <<>>, <<>>, <<>>, 0, 0, <<>>, NoLoc)

\* Depends(get_current_user): the handler body res runs only for a verified token
\* (DependsOpen: the dependency left out)
DependsOpen(token, res) == res
Depends(token, res) == IF get_current_user(token).ok THEN res ELSE Unauthorized

\* the request as the client and the services saw it
Served(endpoint, token, params, res) ==
    [endpoint |-> endpoint, token |-> token, uid |-> get_current_user(token).uid,
     params |-> params, status_code |-> res.status_code, detail |-> res.detail,
     body |-> res.body, caught |-> res.caught, reads |-> res.reads,
     writes |-> res.writes, gen_calls |-> res.gen_calls, added |-> res.added,
     tasks |-> res.tasks, loc |-> res.loc]

NoParams == [none |-> TRUE]

\* no request is being served
Idle == Served("none", "bad", NoParams, Unauthorized)

Free == last.endpoint = "none"

\* the response is sent; the next request can be taken
respond ==
    /\ ~Free
    /\ last' = Idle
    /\ UNCHANGED <<topics, preguntas_generadas, tests, test_respuestas, pending>>

----------------------------------------------------------------------------
(* Handlers of question generation *)

\* GET /api/get-question
get_question(token, topic_id, ext) ==
    \E res \in {Depends(token, generate_question_from_topic(
                         topic_id, get_current_user(token).uid, ext))} :
        /\ Free
        /\ Len(pending) + Len(res.tasks) <= MaxPending
        /\ last' = Served("get_question", token, [topic_id |-> topic_id], res)
        /\ pending' = pending \o res.tasks
        /\ UNCHANGED <<topics, preguntas_generadas, tests, test_respuestas>>

\* the ids of a set of topics as the list the select returns
RECURSIVE IdList(_)
IdList(ids) ==
    IF ids = {} THEN <<>>
    ELSE LET m == CHOOSE i \in ids : \A j \in ids : i <= j
         IN  <<m>> \o IdList(ids \ {m})

\* the body of get_random_question; ext.list_error: the select of the ids fails
random_question(uid, ext) ==
    LET data == IdList({t \in DOMAIN topics : ~topics[t].is_null})
        random_topic_id == Choice(data, ext.rnd_topic)
        inner == generate_question_from_topic(random_topic_id, uid, ext)
        raised == HTTPException(inner.status_code, inner.detail)
        h == RandomBoundary(raised)
    IN  IF ext.list_error
        THEN LET e == Error("APIError")
             IN  Result(HTTP_500_INTERNAL, RandomBoundary(e).detail, NoLoc, <<e>>,
                        <<"topics">>, <<>>, 0, 0, <<>>, NoLoc)
        ELSE IF data = <<>>
        THEN LET e == HTTPException(HTTP_404_NOT_FOUND, <<"No hay temas con contenido.">>)
             IN  Result(HTTP_500_INTERNAL, RandomBoundary(e).detail, NoLoc, <<e>>,
                        <<"topics">>, <<>>, 0, 0, <<>>, NoLoc)
        ELSE IF inner.status_code # HTTP_200_OK
        THEN Result(h.status_code, h.detail, NoLoc, inner.caught \o <<raised>>,
                    <<"topics">> \o inner.reads, <<>>, inner.gen_calls, inner.added,
                    <<>>, inner.loc)
        ELSE [inner EXCEPT !.reads = <<"topics">> \o inner.reads]

\* GET /api/get-random-question
get_random_question(token, ext) ==
    \E res \in {Depends(token, random_question(get_current_user(token).uid, ext))} :
        /\ Free
        /\ Len(pending) + Len(res.tasks) <= MaxPending
        /\ last' = Served("get_random_question", token, NoParams, res)
        /\ pending' = pending \o res.tasks
        /\ UNCHANGED <<topics, preguntas_generadas, tests, test_respuestas>>

\* the row save_question_to_history inserts
HistoryRow(task) ==
    [question_text |-> task.question_data["question"], topic_id |-> task.topic_id,
     user_id |-> task.user_id]

\* save_question_to_history, run by the framework after the response, for any
\* pending task; db_error: the insert fails.  Every exception is swallowed.
save_question_to_history(i, db_error) ==
    LET task == pending[i]
        inserted == ~db_error /\ "question" \in DOMAIN task.question_data
    IN  /\ i \in 1 .. Len(pending)
        /\ inserted => Len(preguntas_generadas) < MaxHistory
        /\ pending' = SubSeq(pending, 1, i - 1) \o SubSeq(pending, i + 1, Len(pending))
        /\ preguntas_generadas' =
              IF inserted THEN Append(preguntas_generadas, HistoryRow(task))
              ELSE preguntas_generadas
        /\ UNCHANGED <<topics, tests, test_respuestas, last>>

----------------------------------------------------------------------------
(* Handlers that only read *)

\* the other handlers change no table and hand over no task
Answer(endpoint, token, params, res) ==
    /\ Free
    /\ last' = Served(endpoint, token, params, res)
    /\ UNCHANGED <<topics, preguntas_generadas, tests, test_respuestas, pending>>

\* try: return <body built from the select>  except: 500
Select(table, db_error, body) ==
    IF db_error THEN Failed(Error("APIError"), <<table>>, <<>>, 0, 0, NoLoc)
    ELSE Ok(body, <<table>>, <<>>, 0, NoLoc)

\* the rows a select of a table this program never writes can return
DataLists == {<<>>, <<"r1">>, <<"r1", "r2">>}

\* GET /api: no token is asked for
read_root(token) ==
    Answer("read_root", token, NoParams,
           Ok([status |-> "OpoQuiz API"], <<>>, <<>>, 0, NoLoc))

\* GET /api/topics
get_topics(token, db_error) ==
    Answer("get_topics", token, NoParams,
           Depends(token, Select("topics", db_error, IdList(DOMAIN topics))))

\* GET /api/topics/{topic_id}/summaries
get_topic_summaries(token, topic_id, db_error, data) ==
    Answer("get_topic_summaries", token, [topic_id |-> topic_id],
           Depends(token, Select("resumenes", db_error, [summaries |-> data])))

\* GET /api/stats/most-failed-questions; the rpc may answer no data at all
get_most_failed_questions(token, db_error, data) ==
    Answer("get_most_failed_questions", token, NoParams,
           Depends(token, Select("rpc", db_error, [ok |-> TRUE, questions |-> data])))

\* GET /api/exams
get_exam_list(token, db_error, data) ==
    Answer("get_exam_list", token, NoParams,
           Depends(token, Select("examenes", db_error, [exams |-> data])))

\* random.shuffle of a list of at most two rows
Shuffle(data, rnd) ==
    IF rnd % 2 = 1 THEN [i \in 1 .. Len(data) |-> data[Len(data) + 1 - i]] ELSE data

\* GET /api/exams/{exam_id}/questions
get_exam_questions(token, exam_id, db_error, data, rnd) ==
    Answer("get_exam_questions", token, [exam_id |-> exam_id],
           Depends(token, Select("preguntas_examen", db_error,
                                 [questions |-> Shuffle(data, rnd)])))

\* the body of get_topic_context; no_data: the select answers without a row
\* instead of raising when the topic is missing
topic_context(topic_id, db_error, no_data) ==
    IF db_error \/ (topic_id \notin DOMAIN topics /\ ~no_data)
    THEN Failed(Error("APIError"), <<"topics">>, <<>>, 0, 0, NoLoc)
    ELSE IF topic_id \notin DOMAIN topics
    THEN Failed(HTTPException(HTTP_404_NOT_FOUND, <<"Tema no encontrado">>),
                <<"topics">>, <<>>, 0, 0, NoLoc)
    ELSE Ok([content |-> topics[topic_id]], <<"topics">>, <<>>, 0, NoLoc)

\* GET /api/get-topic-context/{topic_id}
get_topic_context(token, topic_id, db_error, no_data) ==
    Answer("get_topic_context", token, [topic_id |-> topic_id],
           Depends(token, topic_context(topic_id, db_error, no_data)))

----------------------------------------------------------------------------
(* The tutor *)

\* Optional[str]: None, or a string
None == [none |-> TRUE, s |-> <<>>]
Some(s) == [none |-> FALSE, s |-> s]

\* bool(x) of an Optional[str]
Truthy(o) == ~o.none /\ o.s # <<>>

\* a or b
Or(a, b) == IF Truthy(a) THEN a ELSE b

SummaryCommand == <<"SYSTEM_COMMAND_GENERATE_SUMMARY">>

NoMaterial == <<"Lo siento, no se ha proporcionado temario para responder.">>

SummaryPrompt(text) ==
    [template |-> "summary", text |-> text, query |-> <<>>, model |-> "gemini-2.5-flash"]

TutorPrompt(text, query) ==
    [template |-> "tutor", text |-> text, query |-> query, model |-> "gemini-2.5-pro"]

NoPrompt == [template |-> "none", text |-> <<>>, query |-> <<>>, model |-> "none"]

\* response = model.generate_content(prompt); return {"answer": response.text}
AnswerWith(prompt, gemini) ==
    LET response == generate_content(gemini)
    IN  IF response.error
        THEN Failed(Error("GoogleAPIError"), <<>>, <<>>, response.calls, 0,
                    [prompt |-> prompt])
        ELSE Ok([answer |-> response.text], <<>>, <<>>, response.calls, [prompt |-> prompt])

\* is_summary_request and request.summary_context
UsesSummaryPrompt(request) ==
    request.query = SummaryCommand /\ Truthy(request.summary_context)

\* the body of ask_topic
ask(request, gemini) ==
    LET context_to_use == Or(request.context, request.summary_context)
    IN  IF UsesSummaryPrompt(request)
        THEN AnswerWith(SummaryPrompt(request.summary_context.s), gemini)
        ELSE IF ~Truthy(context_to_use)
        THEN Ok([answer |-> NoMaterial], <<>>, <<>>, 0, [prompt |-> NoPrompt])
        ELSE AnswerWith(TutorPrompt(context_to_use.s, request.query), gemini)

\* POST /api/ask-topic
ask_topic(token, request, gemini) ==
    Answer("ask_topic", token, request, Depends(token, ask(request, gemini)))

----------------------------------------------------------------------------
(* The highlighted explanation *)

Tags == {"[PREGUNTA_EXAMEN]", "[DESTACADO]", "[FECHA_CLAVE]"}

\* the first position >= i of s holding x, 0 when there is none
RECURSIVE IndexFrom(_, _, _)
IndexFrom(s, x, i) == IF i > Len(s) THEN 0 ELSE IF s[i] = x THEN i ELSE IndexFrom(s, x, i + 1)

\* the end of the run of blanks (\s*, greedy) that starts at i: the first
\* position >= i holding no blank
RECURSIVE SkipBlanks(_, _)
SkipBlanks(s, i) ==
    IF i <= Len(s) /\ s[i] \in {"NL", "SP"} THEN SkipBlanks(s, i + 1) ELSE i

\* the last newline of s in i .. j - 1, 0 when there is none
RECURSIVE LastNewline(_, _, _)
LastNewline(s, i, j) ==
    IF j <= i THEN 0 ELSE IF s[j - 1] = "NL" THEN j - 1 ELSE LastNewline(s, i, j - 1)

\* re.findall(tag \s*(.*?)\n, s) from position i on: at a tag, the blanks are
\* skipped and the text up to the next newline is captured; when no newline
\* follows the blanks the match backs into them and captures the empty string
\* before their last newline; without any newline after the tag there is no match
RECURSIVE FindAll(_, _, _)
FindAll(s, tag, i) ==
    LET t == IndexFrom(s, tag, i)
        a == SkipBlanks(s, t + 1)
        b == IndexFrom(s, "NL", a)
        back == LastNewline(s, t + 1, a)
    IN  IF t = 0 THEN <<>>
        ELSE IF b # 0 THEN <<SubSeq(s, a, b - 1)>> \o FindAll(s, tag, b + 1)
        ELSE IF back # 0 THEN <<<<>>>> \o FindAll(s, tag, back + 1)
        ELSE <<>>

priority_fragments(context) ==
    FindAll(context, "[PREGUNTA_EXAMEN]", 1) \o FindAll(context, "[DESTACADO]", 1)
        \o FindAll(context, "[FECHA_CLAVE]", 1)

NoTags == <<"No he encontrado conceptos con etiquetas especiales">>

ExplainPrompt(fragment) ==
    [template |-> "explain", text |-> fragment, query |-> <<>>, model |-> "gemini-2.5-flash"]

\* the body of get_highlighted_explanation
explain(context, rnd, gemini) ==
    LET found == priority_fragments(context)
    IN  IF found = <<>>
        THEN Ok([answer |-> NoTags], <<>>, <<>>, 0, [prompt |-> NoPrompt])
        ELSE AnswerWith(ExplainPrompt(Strip(Choice(found, rnd))), gemini)

\* POST /api/get-highlighted-explanation
get_highlighted_explanation(token, context, rnd, gemini) ==
    Answer("get_highlighted_explanation", token, [context |-> context],
           Depends(token, explain(context, rnd, gemini)))

----------------------------------------------------------------------------
(* Tests, answers and statistics *)

\* POST /api/tests/start; request.topic_id is 0 for None.  The table numbers
\* its rows; the handler returns the id of the new one.
start_new_test(token, request, db_error) ==
    LET ok == get_current_user(token).ok
        uid == get_current_user(token).uid
        id == Len(tests) + 1
        test_data == [topic_id |-> request.topic_id,
                      is_random_test |-> request.is_random_test, user_id |-> uid]
        res == IF db_error THEN Failed(Error("APIError"), <<>>, <<"tests">>, 0, 0, NoLoc)
               ELSE Ok([test_id |-> id], <<>>, <<"tests">>, 0, NoLoc)
    IN  /\ Free
        /\ (ok /\ ~db_error) => Len(tests) < MaxTests
        /\ last' = Served("start_new_test", token, request, Depends(token, res))
        /\ tests' = IF ok /\ ~db_error THEN Append(tests, [id |-> id, topic_id |-> test_data.topic_id,
                                               is_random_test |-> test_data.is_random_test,
                                               user_id |-> test_data.user_id])
                    ELSE tests
        /\ UNCHANGED <<topics, preguntas_generadas, test_respuestas, pending>>

\* (the same with the user_id of the request body, when it sends one)
AnswerRowFromBody(response, uid) ==
    [test_id |-> response.test_id, question_text |-> response.question_text,
     was_correct |-> response.was_correct, topic_id |-> response.topic_id,
     user_id |-> IF "user_id" \in DOMAIN response THEN response.user_id ELSE uid]

\* the row record_answer inserts
AnswerRow(response, uid) ==
    [test_id |-> response.test_id, question_text |-> response.question_text,
     was_correct |-> response.was_correct, topic_id |-> response.topic_id,
     user_id |-> uid]

\* POST /api/tests/answer
record_answer(token, response, db_error) ==
    LET ok == get_current_user(token).ok
        uid == get_current_user(token).uid
        res == IF db_error
               THEN Failed(Error("APIError"), <<>>, <<"test_respuestas">>, 0, 0, NoLoc)
               ELSE Ok([status |-> "success"], <<>>, <<"test_respuestas">>, 0, NoLoc)
    IN  /\ Free
        /\ (ok /\ ~db_error) => Len(test_respuestas) < MaxAnswers
        /\ last' = Served("record_answer", token, response, Depends(token, res))
        /\ test_respuestas' =
              IF ok /\ ~db_error THEN Append(test_respuestas, AnswerRow(response, uid))
              ELSE test_respuestas
        /\ UNCHANGED <<topics, preguntas_generadas, tests, pending>>

\* select('*').eq('user_id', user_id)
RECURSIVE RowsOf(_, _)
RowsOf(rows, user_id) ==
    IF rows = <<>> THEN <<>>
    ELSE (IF Head(rows).user_id = user_id THEN <<Head(rows)>> ELSE <<>>)
            \o RowsOf(Tail(rows), user_id)

\* sum(1 for r in respuestas if r['was_correct'])
RECURSIVE CountCorrect(_)
CountCorrect(respuestas) ==
    IF respuestas = <<>> THEN 0
    ELSE (IF Head(respuestas).was_correct THEN 1 ELSE 0) + CountCorrect(Tail(respuestas))

\* one pass of the by_topic loop
CountOneAlwaysCorrect(by_topic, r) ==
    LET old == IF r.topic_id \in DOMAIN by_topic THEN by_topic[r.topic_id]
               ELSE [correct |-> 0, incorrect |-> 0]
    IN  SetKey(by_topic, r.topic_id, [old EXCEPT !.correct = @ + 1])
CountOne(by_topic, r) ==
    LET old == IF r.topic_id \in DOMAIN by_topic THEN by_topic[r.topic_id]
               ELSE [correct |-> 0, incorrect |-> 0]
    IN  SetKey(by_topic, r.topic_id,
               IF r.was_correct THEN [old EXCEPT !.correct = @ + 1]
               ELSE [old EXCEPT !.incorrect = @ + 1])

\* for r in respuestas: ...
RECURSIVE ByTopic(_, _)
ByTopic(by_topic, respuestas) ==
    IF respuestas = <<>> THEN by_topic
    ELSE ByTopic(CountOne(by_topic, Head(respuestas)), Tail(respuestas))

\* a / b and q * k on numbers kept as fractions
Fraction(a, b) == [num |-> a, den |-> b]
Times(q, k) == [num |-> q.num * k, den |-> q.den]

\* the body of get_stats
stats(user_id, db_error) ==
    LET respuestas == RowsOf(test_respuestas, user_id)
        total == Len(respuestas)
        correctas == CountCorrect(respuestas)
        incorrectas == total - correctas
        accuracy == Times(Fraction(correctas, total), 100)
    IN  IF db_error
        THEN Failed(Error("APIError"), <<"test_respuestas">>, <<>>, 0, 0, NoLoc)
        ELSE IF total = 0
        THEN Ok([total_answered |-> 0, correct |-> 0, incorrect |-> 0, by_topic |-> <<>>,
                 accuracy |-> Fraction(0, 1)], <<"test_respuestas">>, <<>>, 0, NoLoc)
        ELSE Ok([total_answered |-> total, correct |-> correctas,
                 incorrect |-> incorrectas, by_topic |-> ByTopic(<<>>, respuestas),
                 accuracy |-> accuracy], <<"test_respuestas">>, <<>>, 0, NoLoc)

\* GET /api/stats
get_stats(token, db_error) ==
    Answer("get_stats", token, NoParams,
           Depends(token, stats(get_current_user(token).uid, db_error)))

----------------------------------------------------------------------------
(* Specifications *)

EmptyTables ==
    /\ preguntas_generadas = <<>>
    /\ tests = <<>>
    /\ test_respuestas = <<>>
    /\ pending = <<>>
    /\ last = Idle

RunTask ==
    \E i \in 1 .. MaxPending, db_error \in BOOLEAN : save_question_to_history(i, db_error)

Draws == 0 .. MaxDraw

\* what the outside world can answer to one request
QuestionExt == [db_error : BOOLEAN, rnd : Draws, gemini : GeminiOutcomes]

RandomExt ==
    [list_error : BOOLEAN, rnd_topic : Draws, db_error : BOOLEAN, rnd : Draws,
     gemini : GeminiOutcomes]

\* a topics row: content is NULL, or a text
Row(text) == [is_null |-> FALSE, content |-> text]
NullRow == [is_null |-> TRUE, content |-> <<>>]

TopicTables(ids, rows) == UNION {[D -> rows] : D \in SUBSET ids}

GenRows ==
    {NullRow, Row(<<"SP", "W150", "NL">>), Row(<<"W151">>),
     Row(<<"W151", "NL", "NL", "SP", "W150", "W151", "NL">>)}

\* Question generation, over every answer of the services
InitGen ==
    /\ topics \in TopicTables(TopicIds, GenRows)
    /\ EmptyTables

NextGen ==
    \/ \E token \in {"tokA"}, t \in TopicIds, ext \in QuestionExt : get_question(token, t, ext)
    \/ \E token \in {"tokA"}, ext \in RandomExt : get_random_question(token, ext)
    \/ RunTask
    \/ \E token \in {"tokA"}, t \in TopicIds, db_error \in BOOLEAN, no_data \in BOOLEAN :
          get_topic_context(token, t, db_error, no_data)
    \/ respond

SpecGen == InitGen /\ [][NextGen]_vars

\* Every handler, one user, few answers of the services
FewGemini ==
    {[error |-> TRUE, text |-> <<>>], [error |-> FALSE, text |-> <<"O1">>],
     [error |-> FALSE, text |-> <<"ARR">>]}

FewTokens == {"tokA", "bad"}

FewRows == {NullRow, Row(<<"W151">>)}

FewRequests ==
    {[context |-> None, query |-> SummaryCommand, summary_context |-> Some(<<"sum">>)],
     [context |-> Some(<<"ctx">>), query |-> <<"q?">>, summary_context |-> None],
     [context |-> None, query |-> <<"q?">>, summary_context |-> None]}

FewContexts == {<<"x", "NL">>, <<"[DESTACADO]", "SP", "x", "NL">>}

Init ==
    /\ topics \in TopicTables({1}, FewRows)
    /\ EmptyTables

Next ==
    \/ \E token \in FewTokens : read_root(token)
    \/ \E token \in FewTokens, db_error \in BOOLEAN : get_topics(token, db_error)
    \/ \E token \in FewTokens, db_error \in BOOLEAN, data \in DataLists :
          get_topic_summaries(token, 1, db_error, data)
    \/ \E token \in FewTokens, t \in TopicIds,
          ext \in [db_error : BOOLEAN, rnd : {0}, gemini : FewGemini] :
          get_question(token, t, ext)
    \/ \E token \in FewTokens,
          ext \in [list_error : BOOLEAN, rnd_topic : Draws, db_error : BOOLEAN, rnd : {0},
                   gemini : FewGemini] :
          get_random_question(token, ext)
    \/ \E token \in FewTokens, request \in FewRequests, gemini \in FewGemini :
          ask_topic(token, request, gemini)
    \/ \E token \in FewTokens, context \in FewContexts, gemini \in FewGemini :
          get_highlighted_explanation(token, context, 0, gemini)
    \/ \E token \in FewTokens, db_error \in BOOLEAN :
          start_new_test(token, [topic_id |-> 1, is_random_test |-> FALSE], db_error)
    \/ \E token \in FewTokens, db_error \in BOOLEAN :
          record_answer(token, [test_id |-> 1, question_text |-> "q1",
                                was_correct |-> TRUE, topic_id |-> 1], db_error)
    \/ \E token \in FewTokens, db_error \in BOOLEAN : get_stats(token, db_error)
    \/ \E token \in FewTokens, db_error \in BOOLEAN, data \in DataLists :
          get_most_failed_questions(token, db_error, data)
    \/ \E token \in FewTokens, t \in TopicIds, db_error \in BOOLEAN, no_data \in BOOLEAN :
          get_topic_context(token, t, db_error, no_data)
    \/ \E token \in FewTokens, db_error \in BOOLEAN, data \in DataLists :
          get_exam_list(token, db_error, data)
    \/ \E token \in FewTokens, db_error \in BOOLEAN, data \in DataLists, rnd \in Draws :
          get_exam_questions(token, 1, db_error, data, rnd)
    \/ RunTask
    \/ respond

Spec == Init /\ [][Next]_vars

\* Fragments: one topic holding any text of at most MaxTextLen tokens
InitFrag ==
    /\ topics \in [{1} -> {Row(t) : t \in SeqsUpTo(TextTokens, MaxTextLen)}]
    /\ EmptyTables

NextFrag ==
    \/ \E t \in TopicIds,
          ext \in [db_error : BOOLEAN, rnd : Draws,
                   gemini : {[error |-> TRUE, text |-> <<>>],
                             [error |-> FALSE, text |-> <<"O1">>]}] :
          get_question("tokA", t, ext)
    \/ RunTask
    \/ respond

SpecFrag == InitFrag /\ [][NextFrag]_vars

\* Statistics: two users record answers and ask for their statistics
AnswerBodies ==
    [test_id : {1}, question_text : {"q1"}, was_correct : BOOLEAN, topic_id : TopicIds]

InitStats ==
    /\ topics = [t \in TopicIds |-> Row(<<"W151">>)]
    /\ EmptyTables

NextStats ==
    \/ \E token \in Tokens, response \in AnswerBodies, db_error \in BOOLEAN :
          record_answer(token, response, db_error)
    \/ \E token \in Tokens, db_error \in BOOLEAN : get_stats(token, db_error)
    \/ respond

SpecStats == InitStats /\ [][NextStats]_vars

\* Users: two users and a caller without a valid token start tests, record
\* answers, ask for questions and for statistics.  The bodies carry a user_id
\* of their own, a key the request models do not declare.
Uids == {"u1", "u2"}

UserTestRequests == [topic_id : {1}, is_random_test : {FALSE}, user_id : {"u2"}]

UserAnswerBodies ==
    [test_id : {1}, question_text : {"q1"}, was_correct : BOOLEAN, topic_id : {1},
     user_id : {"u2"}]

UserExt == [db_error : {FALSE}, rnd : {0}, gemini : {[error |-> FALSE, text |-> <<"O1">>]}]

InitUsers == InitStats

NextUsers ==
    \/ \E token \in Tokens, request \in UserTestRequests :
          start_new_test(token, request, FALSE)
    \/ \E token \in Tokens, response \in UserAnswerBodies :
          record_answer(token, response, FALSE)
    \/ \E token \in Tokens, ext \in UserExt : get_question(token, 1, ext)
    \/ RunTask
    \/ \E token \in Tokens : get_stats(token, FALSE)
    \/ respond

SpecUsers == InitUsers /\ [][NextUsers]_vars

\* The tutor and the explanation, over every request and context
Optionals(text) == {None, Some(<<>>), Some(text)}

AskRequests ==
    [context : Optionals(<<"ctx">>),
     query : {SummaryCommand, <<"q?">>, SummaryCommand \o <<"!">>},
     summary_context : Optionals(<<"sum">>)]

ContextTokens == Tags \cup {"NL", "SP", "x"}

Contexts == SeqsUpTo(ContextTokens, MaxContextLen)

AskGemini == {[error |-> TRUE, text |-> <<>>], [error |-> FALSE, text |-> <<"answer">>]}

InitAsk == InitStats

NextAsk ==
    \/ \E token \in Tokens, request \in AskRequests, gemini \in AskGemini :
          ask_topic(token, request, gemini)
    \/ \E token \in Tokens, context \in Contexts, rnd \in Draws, gemini \in AskGemini :
          get_highlighted_explanation(token, context, rnd, gemini)
    \/ respond

SpecAsk == InitAsk /\ [][NextAsk]_vars

----------------------------------------------------------------------------
(* Claims about question generation *)

GenEndpoints == {"get_question", "get_random_question"}

IsGen(r) == r.endpoint \in GenEndpoints

\* pending without its i-th task
Without(q, i) == SubSeq(q, 1, i - 1) \o SubSeq(q, i + 1, Len(q))

\* C1: a question-generation request serves a question whose text the history of
\* its topic/user pair already holds only after it has compared its candidates
\* with that history (read preguntas_generadas) and rejected them all; the step
\* that answers the request is the one that hands over the save task.
C1_Original ==
    [][ ( /\ Len(pending') > Len(pending)
          /\ IsGen(last')
          /\ "question" \in DOMAIN last'.body
          /\ \E i \in 1 .. Len(preguntas_generadas) :
                /\ preguntas_generadas[i].topic_id = last'.body["topic_id"]
                /\ preguntas_generadas[i].user_id = last'.uid
                /\ preguntas_generadas[i].question_text = last'.body["question"] )
        => "preguntas_generadas" \in Range(last'.reads) ]_vars

C4_ResponseAndRow ==
    /\ [](IsGen(last) /\ last.status_code = HTTP_200_OK =>
            \E tok \in Range(last.loc.gemini_text) \cap JsonTokens :
               LET parsed == JsonValue(tok).obj
               IN  /\ DOMAIN last.body = DOMAIN parsed \cup {"topic_id"}
                   /\ \A k \in DOMAIN parsed \ {"topic_id"} : last.body[k] = parsed[k]
                   /\ last.body["topic_id"] = last.loc.topic_id
                   /\ last.endpoint = "get_question" =>
                         last.loc.topic_id = last.params.topic_id
                   /\ last.endpoint = "get_random_question" =>
                         /\ last.loc.topic_id \in DOMAIN topics
                         /\ ~topics[last.loc.topic_id].is_null
                   /\ Len(last.tasks) = 1
                   /\ last.tasks[1].topic_id = last.loc.topic_id
                   /\ last.tasks[1].user_id = verify_id_token(last.token).uid
                   /\ \A k \in DOMAIN parsed \ {"topic_id"} :
                         last.tasks[1].question_data[k] = parsed[k])
    /\ [][ preguntas_generadas' # preguntas_generadas =>
             \E i \in 1 .. Len(pending) :
                preguntas_generadas' =
                   Append(preguntas_generadas,
                          [question_text |-> pending[i].question_data["question"],
                           topic_id |-> pending[i].topic_id,
                           user_id |-> pending[i].user_id]) ]_vars

\* the model's object had a topic_id of its own; the response carries the
\* topic's id and the row of that question is in the history
C4_Witness ==
    /\ last.endpoint = "get_random_question" /\ last.status_code = HTTP_200_OK
    /\ "O2" \in Range(last.loc.gemini_text)
    /\ last.body["topic_id"] = 2
    /\ preguntas_generadas =
          <<[question_text |-> "q2", topic_id |-> 2, user_id |-> "u1"]>>

----------------------------------------------------------------------------
(* Claims about every handler *)

\* the step that serves a request
Serves == Free /\ ~Free'

Caught(r) == r.caught[Len(r.caught)]

\* C2 as stated: an error raised in a handler's try block ends the request with
\* status 500, no success body, and the string of the caught exception as detail.
C2_Original ==
    last.caught # <<>> =>
        /\ last.status_code = HTTP_500_INTERNAL
        /\ last.body = NoLoc
        /\ last.detail = Str(Caught(last))

\* C2 (amended): an error raised in a handler's try block, an HTTPException of
\* the handler included, ends the request with status 500, no success body and
\* no task, and the string of the exception caught at the handler's boundary as
\* detail, which get_random_question prefixes with a fixed text; a request ends
\* 500 only in that way and every request ends 200, 401 or 500.
C2_Boundary ==
    /\ last.status_code \in {HTTP_200_OK, HTTP_401_UNAUTHORIZED, HTTP_500_INTERNAL}
    /\ last.status_code = HTTP_500_INTERNAL <=> last.caught # <<>>
    /\ last.caught # <<>> =>
          /\ last.body = NoLoc
          /\ last.tasks = <<>>
          /\ last.detail =
                (IF last.endpoint = "get_random_question"
                 THEN <<"Error al seleccionar tema aleatorio: ">> ELSE <<>>)
                   \o (IF Caught(last).type = "HTTPException"
                       THEN <<StatusText(Caught(last).status_code), ": ">>
                       ELSE <<>>) \o Caught(last).detail

\* get-question raised its own 404 and the client got 500 with "404: ..."
C2_Witness ==
    /\ last.endpoint = "get_question"
    /\ last.caught # <<>>
    /\ last.caught[1].type = "HTTPException"
    /\ last.caught[1].status_code = HTTP_404_NOT_FOUND
    /\ last.status_code = HTTP_500_INTERNAL
    /\ last.detail = <<"404", ": ", "Tema no encontrado o sin contenido">>

\* C5: on every endpoint but /api a request whose token does not verify ends
\* 401 without a read, a write, a generative call or a task, and changes no
\* table; a request whose token verifies does not end 401 and what it writes
\* or hands over carries the uid of the verified token.
C5_Auth ==
    /\ [](last.endpoint \notin {"none", "read_root"} =>
            IF verify_id_token(last.token).ok
            THEN /\ last.status_code # HTTP_401_UNAUTHORIZED
                 /\ \A i \in 1 .. Len(last.tasks) :
                       last.tasks[i].user_id = verify_id_token(last.token).uid
            ELSE /\ last.status_code = HTTP_401_UNAUTHORIZED
                 /\ last.reads = <<>> /\ last.writes = <<>>
                 /\ last.gen_calls = 0 /\ last.added = 0 /\ last.tasks = <<>>
                 /\ last.caught = <<>>)
    /\ [][ Serves =>
             /\ ~verify_id_token(last'.token).ok /\ last'.endpoint # "read_root" =>
                   UNCHANGED <<topics, preguntas_generadas, tests, test_respuestas, pending>>
             /\ tests' # tests =>
                   tests'[Len(tests')].user_id = verify_id_token(last'.token).uid
             /\ test_respuestas' # test_respuestas =>
                   test_respuestas'[Len(test_respuestas')].user_id
                      = verify_id_token(last'.token).uid ]_vars

\* a test start with a bad token: 401 and no row
C5_Witness ==
    /\ last.endpoint = "start_new_test"
    /\ last.token = "bad"
    /\ last.status_code = HTTP_401_UNAUTHORIZED
    /\ tests = <<>>

\* C6: a question-generation request ends with a question or an error after at
\* most GenerationsPerRequest generative calls; no handler makes more than one
\* generative call, reads more than once per select it holds, or writes twice:
\* a failed call is not made again.
C6_NoRetry ==
    /\ last.gen_calls <= GenerationsPerRequest
    /\ Len(last.writes) <= 1
    /\ Len(last.reads) <= (IF last.endpoint = "get_random_question" THEN 2 ELSE 1)
    /\ IsGen(last) =>
          \/ last.status_code = HTTP_200_OK /\ "topic_id" \in DOMAIN last.body
          \/ last.status_code \in {HTTP_401_UNAUTHORIZED, HTTP_500_INTERNAL}
    /\ (last.caught # <<>> /\ last.caught[1].type \in {"GoogleAPIError", "APIError"}) =>
          /\ last.status_code = HTTP_500_INTERNAL
          /\ last.gen_calls = (IF last.caught[1].type = "GoogleAPIError" THEN 1 ELSE 0)

\* the tutor's generative call failed: one call, answered 500
C6_Witness ==
    /\ last.endpoint = "ask_topic"
    /\ last.caught # <<>>
    /\ last.caught[1].type = "GoogleAPIError"
    /\ last.gen_calls = 1

\* C7: the client receives the status the handler raised: 404 for a topic
\* without content, 400 for a content without a fragment, 404 when no topic has
\* content, 404 for a topic context that is not found.
C7_Original ==
    (last.caught # <<>> /\ last.caught[1].type = "HTTPException") =>
        last.status_code = last.caught[1].status_code

----------------------------------------------------------------------------
(* Claims about fragments, statistics, the tutor *)

IsSeparator(s, i) == i >= 1 /\ i + 1 <= Len(s) /\ s[i] = "NL" /\ s[i + 1] = "NL"

\* the pieces of s between blank-line separators: the slices that hold no
\* separator, begin at the start or after one and end at the end or before one
PiecesBetween(s) ==
    LET starts == {i \in 1 .. Len(s) + 1 : i = 1 \/ IsSeparator(s, i - 2)}
        ends == {j \in 0 .. Len(s) : j = Len(s) \/ IsSeparator(s, j + 1)}
    IN  {p \in {SubSeq(s, i, j) : i \in starts, j \in ends} :
           \A k \in 1 .. Len(p) - 1 : ~IsSeparator(p, k)}

Trimmed(s) ==
    /\ s # <<>> => s[1] \notin {"NL", "SP"} /\ s[Len(s)] \notin {"NL", "SP"}
    /\ \A i \in 1 .. Len(s) - 1 : ~IsSeparator(s, i)

\* C8: the fragments of a get-question request are exactly the trimmed pieces
\* of the topic's text between blank-line separators that are longer than
\* FragmentMinLen characters (150 itself is not enough); the fragment in the
\* prompt is one of them; without fragments there is no generative call and no
\* task for the history.
C8_Fragments ==
    (/\ last.endpoint = "get_question"
     /\ last.status_code # HTTP_401_UNAUTHORIZED
     /\ ~(last.caught # <<>> /\ last.caught[1].type = "APIError")) =>
        LET text == IF topics[last.loc.topic_id].is_null THEN <<>>
                    ELSE topics[last.loc.topic_id].content
            frags == last.loc.all_fragments
        IN  /\ \A f \in Range(frags) : Trimmed(f) /\ StrLen(f) >= FragmentMinLen + 1
            /\ Range(frags) =
                  {Strip(p) : p \in {q \in PiecesBetween(text) :
                                       StrLen(Strip(q)) > FragmentMinLen}}
            /\ frags # <<>> =>
                  /\ last.loc.selected_fragment \in Range(frags)
                  /\ last.loc.prompt = <<"PROMPT_QUESTION">> \o last.loc.selected_fragment
            /\ frags = <<>> => last.gen_calls = 0 /\ last.added = 0 /\ last.tasks = <<>>
            /\ last.gen_calls > 0 => frags # <<>>

\* a piece of exactly 150 characters is left out, the one of 151 is the fragment
C8_Witness ==
    /\ last.endpoint = "get_question"
    /\ last.status_code = HTTP_200_OK
    /\ last.loc.full_text = <<"W150", "NL", "NL", "W151">>
    /\ last.loc.all_fragments = << <<"W151">> >>
    /\ last.loc.selected_fragment = <<"W151">>

\* the answers of user u in the table
AnswersOf(u) == {i \in 1 .. Len(test_respuestas) : test_respuestas[i].user_id = u}

RECURSIVE SumField(_, _, _)
SumField(f, S, correct) ==
    IF S = {} THEN 0
    ELSE LET t == CHOOSE x \in S : TRUE
         IN  (IF correct THEN f[t].correct ELSE f[t].incorrect)
                + SumField(f, S \ {t}, correct)

\* C9: get_stats counts the caller's answers: total = correct + incorrect, the
\* per-topic counts are those of the table and sum to correct and to incorrect,
\* by_topic holds exactly the topics answered, accuracy = correct / total * 100;
\* without answers every count and the accuracy are 0, by_topic is empty and
\* nothing is divided by 0.
C9_Stats ==
    (last.endpoint = "get_stats" /\ last.status_code = HTTP_200_OK) =>
        LET mine == AnswersOf(verify_id_token(last.token).uid)
            right == {i \in mine : test_respuestas[i].was_correct}
            b == last.body
        IN  /\ b.total_answered = Cardinality(mine)
            /\ b.correct = Cardinality(right)
            /\ b.total_answered = b.correct + b.incorrect
            /\ DOMAIN b.by_topic = {test_respuestas[i].topic_id : i \in mine}
            /\ \A t \in DOMAIN b.by_topic :
                  /\ b.by_topic[t].correct =
                        Cardinality({i \in right : test_respuestas[i].topic_id = t})
                  /\ b.by_topic[t].incorrect =
                        Cardinality({i \in mine \ right : test_respuestas[i].topic_id = t})
            /\ SumField(b.by_topic, DOMAIN b.by_topic, TRUE) = b.correct
            /\ SumField(b.by_topic, DOMAIN b.by_topic, FALSE) = b.incorrect
            /\ b.accuracy.den # 0
            /\ b.accuracy.num * b.total_answered = b.correct * 100 * b.accuracy.den
            /\ mine = {} => b.accuracy.num = 0 /\ b.correct = 0 /\ b.incorrect = 0

\* three answers of u1 over two topics, right and wrong, and one of u2
C9_Witness ==
    /\ last.endpoint = "get_stats" /\ last.status_code = HTTP_200_OK
    /\ last.uid = "u1"
    /\ last.body.total_answered = 2
    /\ last.body.correct = 1
    /\ DOMAIN last.body.by_topic = {1, 2}
    /\ Len(test_respuestas) = 3

NonEmpty(o) == ~o.none /\ Len(o.s) > 0

HasTag(s) == \E i \in 1 .. Len(s) : s[i] \in Tags

\* what ask_topic puts in its prompt: the summary prompt exactly when the query
\* is the summary command and summary_context is not empty; otherwise the tutor
\* prompt over context, or over summary_context when context is empty; with
\* both empty the no-material answer, status 200, without a generative call
AskTopicPrompts ==
    (last.endpoint = "ask_topic" /\ verify_id_token(last.token).ok) =>
        LET r == last.params
            prompt == last.loc.prompt
            summary == r.query = <<"SYSTEM_COMMAND_GENERATE_SUMMARY">>
                          /\ NonEmpty(r.summary_context)
        IN  /\ prompt.template = "summary" <=> summary
            /\ summary => prompt.text = r.summary_context.s
            /\ (~summary /\ NonEmpty(r.context)) =>
                  /\ prompt.template = "tutor"
                  /\ prompt.text = r.context.s /\ prompt.query = r.query
            /\ (~summary /\ ~NonEmpty(r.context) /\ NonEmpty(r.summary_context)) =>
                  /\ prompt.template = "tutor"
                  /\ prompt.text = r.summary_context.s /\ prompt.query = r.query
            /\ (~NonEmpty(r.context) /\ ~NonEmpty(r.summary_context)) =>
                  /\ last.status_code = HTTP_200_OK
                  /\ last.body.answer = NoMaterial
                  /\ last.gen_calls = 0
                  /\ prompt.template = "none"
            /\ last.gen_calls = (IF prompt.template = "none" THEN 0 ELSE 1)

\* the end of the line of s that holds position i: its newline, or Len(s) + 1
LineEnd(s, i) == LET n == IndexFrom(s, "NL", i) IN IF n = 0 THEN Len(s) + 1 ELSE n

\* the tagged lines of s: for each tag, the text from it to the end of its line
TaggedLines(s) ==
    {Strip(SubSeq(s, i + 1, LineEnd(s, i) - 1)) : i \in {k \in 1 .. Len(s) : s[k] \in Tags}}

\* C10: ask_topic builds the summary prompt exactly when the query is the
\* summary command and summary_context is non-empty, otherwise answers from
\* context or, context being empty, from summary_context, and with both empty
\* returns the no-material answer with status 200 and no generative call;
\* get_highlighted_explanation makes no generative call for a context without
\* a tagged line and otherwise explains one of the tagged lines of the context.
C10_Original ==
    /\ AskTopicPrompts
    /\ (last.endpoint = "get_highlighted_explanation" /\ verify_id_token(last.token).ok) =>
          LET s == last.params.context
          IN  IF ~HasTag(s)
              THEN last.gen_calls = 0
              ELSE /\ last.gen_calls = 1
                   /\ last.loc.prompt.template = "explain"
                   /\ last.loc.prompt.text \in TaggedLines(s)

----------------------------------------------------------------------------
(* Claims about users *)

\* the caller of the request in service
Caller == verify_id_token(last.token)

\* C11: every row written to tests, test_respuestas and preguntas_generadas
\* carries the uid of the authenticated caller of the request that wrote it,
\* whatever user_id the request body holds: a request appends at most one row,
\* with the uid of its verified token, and a save task carries that uid into
\* the row it inserts.  What get_stats answers to user u is computed from the
\* rows of u alone: a step that changes test_respuestas (no other table is read)
\* changes it only for the caller who recorded the answer.
C11_Isolation ==
    [][ /\ \A i \in 1 .. Len(tests') : tests'[i].user_id \in Uids
        /\ \A i \in 1 .. Len(test_respuestas') : test_respuestas'[i].user_id \in Uids
        /\ \A i \in 1 .. Len(preguntas_generadas') :
              preguntas_generadas'[i].user_id \in Uids
        /\ (Serves /\ last'.endpoint = "get_stats" /\ last'.status_code = HTTP_200_OK) =>
              /\ last'.uid = Caller'.uid
              /\ last'.body.total_answered = Cardinality(AnswersOf(Caller'.uid))
              /\ last'.body.correct =
                    Cardinality({i \in AnswersOf(Caller'.uid) :
                                   test_respuestas[i].was_correct})
        /\ tests' # tests =>
             /\ Serves /\ last'.endpoint = "start_new_test" /\ Caller'.ok
             /\ Len(tests') = Len(tests) + 1
             /\ SubSeq(tests', 1, Len(tests)) = tests
             /\ tests'[Len(tests')].user_id = Caller'.uid
        /\ test_respuestas' # test_respuestas =>
             /\ Serves /\ last'.endpoint = "record_answer" /\ Caller'.ok
             /\ Len(test_respuestas') = Len(test_respuestas) + 1
             /\ SubSeq(test_respuestas', 1, Len(test_respuestas)) = test_respuestas
             /\ test_respuestas'[Len(test_respuestas')].user_id = Caller'.uid
        /\ Len(pending') > Len(pending) =>
             /\ Serves /\ IsGen(last') /\ Caller'.ok
             /\ Len(pending') = Len(pending) + 1
             /\ SubSeq(pending', 1, Len(pending)) = pending
             /\ pending'[Len(pending')].user_id = Caller'.uid
        /\ preguntas_generadas' # preguntas_generadas =>
             /\ ~Serves
             /\ Len(preguntas_generadas') = Len(preguntas_generadas) + 1
             /\ SubSeq(preguntas_generadas', 1, Len(preguntas_generadas))
                   = preguntas_generadas
             /\ \E i \in 1 .. Len(pending) :
                   /\ pending' = Without(pending, i)
                   /\ preguntas_generadas'[Len(preguntas_generadas')].user_id
                         = pending[i].user_id
        /\ test_respuestas' # test_respuestas =>
             \A u \in Uids :
                /\ RowsOf(test_respuestas, u)' = RowsOf(test_respuestas, u) =>
                      stats(u, FALSE)' = stats(u, FALSE)
                /\ Caller'.uid # u => stats(u, FALSE)' = stats(u, FALSE) ]_vars

\* u1 records an answer whose body names u2, after an answer of u2: the row is
\* u1's, and the statistics of u1 count it
C11_Witness ==
    /\ last.endpoint = "get_stats" /\ last.token = "tokA"
    /\ last.status_code = HTTP_200_OK
    /\ last.body.total_answered = 1
    /\ Len(test_respuestas) = 2
    /\ test_respuestas[1].user_id = "u2"
    /\ test_respuestas[2].user_id = "u1"
    /\ \E i \in 1 .. Len(tests) : tests[i].user_id = "u1"
    /\ \E i \in 1 .. Len(preguntas_generadas) : preguntas_generadas[i].user_id = "u1"

====
